---- MODULE Spec2Model ----
(***************************************************************************)
(* Model of presubmit/clssender.go: the clsSender dispatcher               *)
(* (sendCLsToPresubmitTest), the multi-part grouper (combineCLList), the   *)
(* trust policy (isTrustedContributor) and the label formatter             *)
(* (formatCLString).  The workflow interface is the environment: every     *)
(* call on s.worker is recorded in the variable worker together with the   *)
(* value the worker returned, which is chosen nondeterministically.        *)
(* Lines printed on stdout/stderr are not part of the state.               *)
(***************************************************************************)
EXTENDS Integers, Sequences, FiniteSets, TLC

VARIABLES clLists, clsSent, worker, idx, pc, tests, retval

vars == <<clLists, clsSent, worker, idx, pc, tests, retval>>

----------------------------------------------------------------------------
(* Bounds of the explored inputs. *)

\* Largest number of CL lists (batches) handed to one clsSender.
MaxBatches == 2

\* Largest total number of CLs over all the batches of one clsSender.
MaxRecords == 3

----------------------------------------------------------------------------
(* Values. *)

\* Go's nil error.
NoErr == "nil"

\* Non-nil errors a workflow operation may return.
Errors == {"e1", "e2"}

\* gerrit.PresubmitTestTypeNone / gerrit.PresubmitTestTypeAll.
PresubmitTestTypeNone == "none"

PresubmitTestTypeAll == "all"

\* Results listTestsToRun may return.
TestLists == {<<>>, <<"t1">>, <<"t1", "t2">>}

\* Results removeOutdatedBuilds may return ([]error, entries may be nil).
ErrLists == {<<>>, <<"e1">>, <<"e1", "e2">>, <<NoErr, "e2">>}

\* The CLs (gerrit.Change: Reference(), OwnerEmail(), PresubmitTest) that the
\* explored batches are built from.
CLPool ==
    { [ref |-> "refs/changes/01/1/5", ownerEmail |-> "a@google.com",
       presubmitTest |-> PresubmitTestTypeAll],
      [ref |-> "refs/changes/02/2/7", ownerEmail |-> "a@evil.com",
       presubmitTest |-> PresubmitTestTypeAll],
      [ref |-> "refs/changes/01/1/6", ownerEmail |-> "b@google.com",
       presubmitTest |-> PresubmitTestTypeNone],
      [ref |-> "refs/changes/3/x", ownerEmail |-> "a@GOOGLE.COM",
       presubmitTest |-> PresubmitTestTypeAll] }

\* A wider choice of CLs for the runs over a single batch: CLPool and CLs
\* with a repeated change number, a two-digit change number and owner
\* addresses that differ from a google.com address in case, by a trailing
\* blank or by lacking the "@".
GroupPool ==
    CLPool \cup
    { [ref |-> "refs/changes/01/1/6", ownerEmail |-> "a@google.com",
       presubmitTest |-> PresubmitTestTypeAll],
      [ref |-> "refs/changes/12/12/3", ownerEmail |-> "a@GOOGLE.COM",
       presubmitTest |-> PresubmitTestTypeAll],
      [ref |-> "refs/changes/03/3/1", ownerEmail |-> "a@google.com ",
       presubmitTest |-> PresubmitTestTypeAll],
      [ref |-> "refs/changes/03/3/2", ownerEmail |-> "@google.com",
       presubmitTest |-> PresubmitTestTypeAll],
      [ref |-> "refs/changes/04/4/1", ownerEmail |-> "google.com",
       presubmitTest |-> PresubmitTestTypeAll] }

----------------------------------------------------------------------------
(* String helpers (Go's strings and strconv packages). *)

\* strings.HasSuffix(s, suffix)
HasSuffix(s, suffix) ==
    /\ Len(s) >= Len(suffix)
    /\ SubSeq(s, Len(s) - Len(suffix) + 1, Len(s)) = suffix

\* strings.Split(s, sep) for a one-character separator: the pieces between
\* the separators, in order (n separators give n + 1 pieces).
RECURSIVE SplitFrom(_, _, _, _)
SplitFrom(s, sep, i, cur) ==
    IF i > Len(s) THEN <<cur>>
    ELSE IF SubSeq(s, i, i) = sep
         THEN <<cur>> \o SplitFrom(s, sep, i + 1, "")
         ELSE SplitFrom(s, sep, i + 1, cur \o SubSeq(s, i, i))

Split(s, sep) == SplitFrom(s, sep, 1, "")

\* strings.Join(elems, sep)
RECURSIVE Join(_, _)
Join(elems, sep) ==
    IF Len(elems) = 0 THEN ""
    ELSE IF Len(elems) = 1 THEN elems[1]
    ELSE elems[1] \o sep \o Join(Tail(elems), sep)

DigitValue(c) ==
    CASE c = "0" -> 0 [] c = "1" -> 1 [] c = "2" -> 2 [] c = "3" -> 3
      [] c = "4" -> 4 [] c = "5" -> 5 [] c = "6" -> 6 [] c = "7" -> 7
      [] c = "8" -> 8 [] c = "9" -> 9 [] OTHER -> -1

RECURSIVE AllDigits(_)
AllDigits(s) ==
    Len(s) = 0 \/ (DigitValue(Head(s)) >= 0 /\ AllDigits(Tail(s)))

RECURSIVE DigitsValue(_, _)
DigitsValue(s, acc) ==
    IF Len(s) = 0 THEN acc
    ELSE DigitsValue(Tail(s), 10 * acc + DigitValue(Head(s)))

\* strconv.Atoi(s): an optional sign followed by at least one decimal digit.
Atoi(s) ==
    LET signed == Len(s) > 0 /\ Head(s) \in {"+", "-"}
        digits == IF signed THEN Tail(s) ELSE s
    IN  IF Len(digits) = 0 \/ ~AllDigits(digits)
        THEN [val |-> 0, err |-> "invalid syntax"]
        ELSE [val |-> IF signed /\ Head(s) = "-"
                      THEN 0 - DigitsValue(digits, 0)
                      ELSE DigitsValue(digits, 0),
              err |-> NoErr]

\* gerrit.ParseRefString(ref): ref must be "refs/changes/<xx>/<cl>/<patchset>",
\* five "/"-separated parts whose last two are integers.
ParseRefString(ref) ==
    LET parts == Split(ref, "/")
    IN  IF Len(parts) # 5
        THEN [cl |-> -1, ps |-> -1, err |-> "unexpected number of parts"]
        ELSE LET cl == Atoi(parts[4])
                 ps == Atoi(parts[5])
             IN  IF cl.err # NoErr
                 THEN [cl |-> -1, ps |-> -1, err |-> cl.err]
                 ELSE IF ps.err # NoErr
                 THEN [cl |-> -1, ps |-> -1, err |-> ps.err]
                 ELSE [cl |-> cl.val, ps |-> ps.val, err |-> NoErr]

----------------------------------------------------------------------------
(* The pure functions of clssender.go. *)

\* isTrustedContributor that looks for the domain anywhere in the address.
isTrustedContributor_contains(emailAddress) ==
    \E i \in 1..(Len(emailAddress) - Len("@google.com") + 1) :
        SubSeq(emailAddress, i, i + Len("@google.com") - 1) = "@google.com"

\* isTrustedContributor(emailAddress)
isTrustedContributor(emailAddress) == HasSuffix(emailAddress, "@google.com")

\* formatCLString with its two numbers in the wrong order.
formatCLString_swapped(clNumber, patchsetNumber) ==
    ToString(patchsetNumber) \o "/" \o ToString(clNumber)

\* formatCLString(clNumber, patchsetNumber): fmt.Sprintf("%d/%d", ...)
formatCLString(clNumber, patchsetNumber) ==
    ToString(clNumber) \o "/" \o ToString(patchsetNumber)

\* The zero value multiPartCLInfo{} (a nil map has length 0 like an empty one).
ZeroInfo ==
    [clMap |-> <<>>, clString |-> "", skipPresubmitTest |-> FALSE,
     hasTrustedOwner |-> FALSE, refs |-> <<>>]

\* MapPut that keeps the patchset already recorded for a change number.
MapPut_firstWins(m, k, v) ==
    [x \in (DOMAIN m) \cup {k} |-> IF x \in DOMAIN m THEN m[x] ELSE v]

\* result.clMap[clNumber(cl)] = patchset(ps)
MapPut(m, k, v) == [x \in (DOMAIN m) \cup {k} |-> IF x = k THEN v ELSE m[x]]

\* combineFrom where the owner of the last CL alone decides hasTrustedOwner.
RECURSIVE combineFrom_lastOwner(_, _, _, _)
combineFrom_lastOwner(curCLList, n, result, clStrings) ==
    IF n > Len(curCLList)
    THEN [result EXCEPT !.clString = Join(clStrings, ", ")]
    ELSE LET curCL == curCLList[n]
             parsed == ParseRefString(curCL.ref)
         IN  IF parsed.err # NoErr
             THEN ZeroInfo
             ELSE combineFrom_lastOwner(curCLList, n + 1,
                    [result EXCEPT
                       !.skipPresubmitTest =
                           IF curCL.presubmitTest = PresubmitTestTypeNone
                           THEN TRUE ELSE @,
                       !.hasTrustedOwner =
                           isTrustedContributor(curCL.ownerEmail),
                       !.clMap = MapPut(@, parsed.cl, parsed.ps),
                       !.refs = Append(@, curCL.ref)],
                    Append(clStrings, formatCLString(parsed.cl, parsed.ps)))

\* combineFrom that returns what it has gathered so far on a malformed ref.
RECURSIVE combineFrom_partial(_, _, _, _)
combineFrom_partial(curCLList, n, result, clStrings) ==
    IF n > Len(curCLList)
    THEN [result EXCEPT !.clString = Join(clStrings, ", ")]
    ELSE LET curCL == curCLList[n]
             parsed == ParseRefString(curCL.ref)
         IN  IF parsed.err # NoErr
             THEN [result EXCEPT !.clString = Join(clStrings, ", ")]
             ELSE combineFrom_partial(curCLList, n + 1,
                    [result EXCEPT
                       !.skipPresubmitTest =
                           IF curCL.presubmitTest = PresubmitTestTypeNone
                           THEN TRUE ELSE @,
                       !.hasTrustedOwner =
                           IF ~isTrustedContributor(curCL.ownerEmail)
                           THEN FALSE ELSE @,
                       !.clMap = MapPut(@, parsed.cl, parsed.ps),
                       !.refs = Append(@, curCL.ref)],
                    Append(clStrings, formatCLString(parsed.cl, parsed.ps)))

\* The loop of combineCLList from its n-th element on, with the values of
\* result and clStrings at that point.
RECURSIVE combineFrom(_, _, _, _)
combineFrom(curCLList, n, result, clStrings) ==
    IF n > Len(curCLList)
    THEN [result EXCEPT !.clString = Join(clStrings, ", ")]
    ELSE LET curCL == curCLList[n]
             parsed == ParseRefString(curCL.ref)
         IN  IF parsed.err # NoErr
             THEN ZeroInfo
             ELSE combineFrom(curCLList, n + 1,
                    [result EXCEPT
                       !.skipPresubmitTest =
                           IF curCL.presubmitTest = PresubmitTestTypeNone
                           THEN TRUE ELSE @,
                       !.hasTrustedOwner =
                           IF ~isTrustedContributor(curCL.ownerEmail)
                           THEN FALSE ELSE @,
                       !.clMap = MapPut(@, parsed.cl, parsed.ps),
                       !.refs = Append(@, curCL.ref)],
                    Append(clStrings, formatCLString(parsed.cl, parsed.ps)))

\* combineCLList without the initial result.hasTrustedOwner = true.
combineCLList_zeroInit(curCLList) ==
    combineFrom(curCLList, 1, ZeroInfo, <<>>)

\* combineCLList(curCLList)
combineCLList(curCLList) ==
    combineFrom(curCLList, 1,
                [ZeroInfo EXCEPT !.hasTrustedOwner = TRUE], <<>>)

----------------------------------------------------------------------------
(* Inputs. *)

\* The sequences of exactly n elements of S.
RECURSIVE SeqsOfLen(_, _)
SeqsOfLen(S, n) ==
    IF n = 0 THEN {<<>>}
    ELSE {Append(q, x) : q \in SeqsOfLen(S, n - 1), x \in S}

\* The lists of at most nb batches holding at most nr CLs in total.
RECURSIVE ListsWithin(_, _)
ListsWithin(nb, nr) ==
    IF nb = 0 THEN {<<>>}
    ELSE {<<>>} \cup
         UNION {{<<b>> \o rest : b \in SeqsOfLen(CLPool, k),
                                 rest \in ListsWithin(nb - 1, nr - k)} :
                k \in 0..nr}

\* The explored values of clsSender.clLists.
CLListsInputs == ListsWithin(MaxBatches, MaxRecords)

----------------------------------------------------------------------------
(* The state machine of sendCLsToPresubmitTest. *)

\* One recorded call on the workflow: the operation, the batch (index into
\* clLists) being processed, the arguments and the value returned.
Call(op, args, ret) == [op |-> op, batch |-> idx, args |-> args, ret |-> ret]

\* combineCLList of every batch that can occur in clLists, evaluated once.
Groups ==
    [curCLList \in UNION {SeqsOfLen(GroupPool, n) : n \in 0..MaxRecords} |->
        combineCLList(curCLList)]

\* cls := combineCLList(curCLList) for the batch at the loop position.
cls == Groups[clLists[idx]]

AtBatch == pc = "loop" /\ idx <= Len(clLists)

\* &clsSender{clLists: ..., worker: ...}: nothing sent, no call made yet.
Init ==
    /\ clLists \in CLListsInputs
    /\ clsSent = 0
    /\ worker = <<>>
    /\ idx = 1
    /\ pc = "loop"
    /\ tests = <<>>
    /\ retval = NoErr

\* PostAndContinue that drops the error of postResults and continues.
PostAndContinue_ignoreErr(message, verified) ==
    \E err \in Errors \cup {NoErr} :
        /\ worker' = Append(worker,
                            Call("postResults", <<message, cls.refs, verified>>, err))
        /\ retval' = retval
        /\ pc' = "loop"
        /\ idx' = idx + 1
        /\ tests' = <<>>
        /\ UNCHANGED <<clLists, clsSent>>

\* The common tail of the three reporting paths: postResults(message,
\* cls.refs, verified); a failure is returned, otherwise continue.
PostAndContinue(message, verified) ==
    \E err \in Errors \cup {NoErr} :
        /\ worker' = Append(worker,
                            Call("postResults", <<message, cls.refs, verified>>, err))
        /\ IF err # NoErr
           THEN /\ retval' = err
                /\ pc' = "done"
                /\ idx' = idx
           ELSE /\ retval' = retval
                /\ pc' = "loop"
                /\ idx' = idx + 1
        /\ tests' = <<>>
        /\ UNCHANGED <<clLists, clsSent>>

\* Lines 47-51: an empty clMap, continue.
SkipEmpty ==
    /\ AtBatch
    /\ Cardinality(DOMAIN cls.clMap) = 0
    /\ idx' = idx + 1
    /\ UNCHANGED <<clLists, clsSent, worker, pc, tests, retval>>

\* SkipPresubmitNone that reports Verified -1.
SkipPresubmitNone_unverified ==
    /\ AtBatch
    /\ Cardinality(DOMAIN cls.clMap) # 0
    /\ cls.skipPresubmitTest
    /\ PostAndContinue("Presubmit tests skipped.\n", FALSE)

\* Lines 53-60: PresubmitTest: none.
SkipPresubmitNone ==
    /\ AtBatch
    /\ Cardinality(DOMAIN cls.clMap) # 0
    /\ cls.skipPresubmitTest
    /\ PostAndContinue("Presubmit tests skipped.\n", TRUE)

\* ListTests that asks the workflow only once and reuses the answer.
ListTests_cached ==
    /\ AtBatch
    /\ Cardinality(DOMAIN cls.clMap) # 0
    /\ ~cls.skipPresubmitTest
    /\ IF \E j \in DOMAIN worker : worker[j].op = "listTestsToRun"
       THEN /\ tests' = worker[CHOOSE j \in DOMAIN worker :
                                  worker[j].op = "listTestsToRun"].ret
            /\ worker' = worker
       ELSE \E testNames \in TestLists :
               /\ tests' = testNames
               /\ worker' = Append(worker,
                                   Call("listTestsToRun", <<>>, testNames))
    /\ pc' = "tests"
    /\ UNCHANGED <<clLists, clsSent, idx, retval>>

\* ListTests that cancels the outdated builds before it fetches the tests.
ListTests_cancelFirst ==
    /\ AtBatch
    /\ Cardinality(DOMAIN cls.clMap) # 0
    /\ ~cls.skipPresubmitTest
    /\ \E testNames \in TestLists, errs \in ErrLists :
          /\ tests' = testNames
          /\ worker' = worker \o
                 <<Call("removeOutdatedBuilds", <<cls.clMap>>, errs),
                   Call("listTestsToRun", <<>>, testNames)>>
    /\ pc' = "tests"
    /\ UNCHANGED <<clLists, clsSent, idx, retval>>

\* Lines 62-63: tests := s.worker.listTestsToRun()
ListTests ==
    /\ AtBatch
    /\ Cardinality(DOMAIN cls.clMap) # 0
    /\ ~cls.skipPresubmitTest
    /\ \E testNames \in TestLists :
          /\ tests' = testNames
          /\ worker' = Append(worker, Call("listTestsToRun", <<>>, testNames))
    /\ pc' = "tests"
    /\ UNCHANGED <<clLists, clsSent, idx, retval>>

\* Lines 65-72: no tests.
SkipNoTests ==
    /\ pc = "tests"
    /\ Len(tests) = 0
    /\ PostAndContinue("No tests found.\n", TRUE)

\* SkipUntrusted tested before the no-tests check.
SkipUntrusted_first ==
    /\ pc = "tests"
    /\ ~cls.hasTrustedOwner
    /\ PostAndContinue("Tell Freenode#fuchsia to kick the presubmit tests.\n", FALSE)

\* Lines 74-81: external contributor.
SkipUntrusted ==
    /\ pc = "tests"
    /\ Len(tests) # 0
    /\ ~cls.hasTrustedOwner
    /\ PostAndContinue("Tell Freenode#fuchsia to kick the presubmit tests.\n", FALSE)

\* RemoveOutdated reached without the check of the owners.
RemoveOutdated_noTrustCheck ==
    /\ pc = "tests"
    /\ Len(tests) # 0
    /\ \E errs \in ErrLists :
          worker' = Append(worker, Call("removeOutdatedBuilds", <<cls.clMap>>, errs))
    /\ pc' = "build"
    /\ UNCHANGED <<clLists, clsSent, idx, tests, retval>>

\* RemoveOutdated that returns the first non-nil error instead of logging it.
RemoveOutdated_abort ==
    /\ pc = "tests"
    /\ Len(tests) # 0
    /\ cls.hasTrustedOwner
    /\ \E errs \in ErrLists :
          /\ worker' = Append(worker,
                              Call("removeOutdatedBuilds", <<cls.clMap>>, errs))
          /\ IF \E n \in DOMAIN errs : errs[n] # NoErr
             THEN /\ pc' = "done"
                  /\ retval' = errs[CHOOSE n \in DOMAIN errs : errs[n] # NoErr]
             ELSE /\ pc' = "build"
                  /\ retval' = retval
    /\ UNCHANGED <<clLists, clsSent, idx, tests>>

\* Lines 83-88: removeOutdatedBuilds(cls.clMap); its errors are only logged.
RemoveOutdated ==
    /\ pc = "tests"
    /\ Len(tests) # 0
    /\ cls.hasTrustedOwner
    /\ \E errs \in ErrLists :
          worker' = Append(worker, Call("removeOutdatedBuilds", <<cls.clMap>>, errs))
    /\ pc' = "build"
    /\ UNCHANGED <<clLists, clsSent, idx, tests, retval>>

\* AddBuild that also reports a rejected build through postResults.
AddBuild_reportFailure ==
    /\ pc = "build"
    /\ \E err \in Errors \cup {NoErr} :
          /\ worker' =
                IF err # NoErr
                THEN worker \o
                     <<Call("addPresubmitTestBuild", <<clLists[idx], tests>>, err),
                       Call("postResults",
                            <<"addPresubmitTestBuild failed\n", cls.refs, FALSE>>,
                            NoErr)>>
                ELSE Append(worker,
                       Call("addPresubmitTestBuild", <<clLists[idx], tests>>, err))
          /\ clsSent' = IF err # NoErr THEN clsSent
                        ELSE clsSent + Len(clLists[idx])
    /\ idx' = idx + 1
    /\ pc' = "loop"
    /\ tests' = <<>>
    /\ UNCHANGED <<clLists, retval>>

\* AddBuild that always submits the first batch.
AddBuild_firstBatch ==
    /\ pc = "build"
    /\ \E err \in Errors \cup {NoErr} :
          /\ worker' = Append(worker,
                 Call("addPresubmitTestBuild", <<clLists[1], tests>>, err))
          /\ clsSent' = IF err # NoErr THEN clsSent
                        ELSE clsSent + Len(clLists[idx])
    /\ idx' = idx + 1
    /\ pc' = "loop"
    /\ tests' = <<>>
    /\ UNCHANGED <<clLists, retval>>

\* AddBuild that returns the error of addPresubmitTestBuild.
AddBuild_abort ==
    /\ pc = "build"
    /\ \E err \in Errors \cup {NoErr} :
          /\ worker' = Append(worker,
                 Call("addPresubmitTestBuild", <<clLists[idx], tests>>, err))
          /\ IF err # NoErr
             THEN /\ clsSent' = clsSent
                  /\ retval' = err
                  /\ pc' = "done"
                  /\ idx' = idx
             ELSE /\ clsSent' = clsSent + Len(clLists[idx])
                  /\ retval' = retval
                  /\ pc' = "loop"
                  /\ idx' = idx + 1
    /\ tests' = <<>>
    /\ UNCHANGED <<clLists>>

\* AddBuild that counts the batch whether or not the build was accepted.
AddBuild_countAlways ==
    /\ pc = "build"
    /\ \E err \in Errors \cup {NoErr} :
          /\ worker' = Append(worker,
                 Call("addPresubmitTestBuild", <<clLists[idx], tests>>, err))
          /\ clsSent' = clsSent + Len(clLists[idx])
    /\ idx' = idx + 1
    /\ pc' = "loop"
    /\ tests' = <<>>
    /\ UNCHANGED <<clLists, retval>>

\* Lines 90-97: addPresubmitTestBuild(curCLList, tests); count on success.
AddBuild ==
    /\ pc = "build"
    /\ \E err \in Errors \cup {NoErr} :
          /\ worker' = Append(worker,
                 Call("addPresubmitTestBuild", <<clLists[idx], tests>>, err))
          /\ clsSent' = IF err # NoErr THEN clsSent
                        ELSE clsSent + Len(clLists[idx])
    /\ idx' = idx + 1
    /\ pc' = "loop"
    /\ tests' = <<>>
    /\ UNCHANGED <<clLists, retval>>

\* Line 98: return nil after the last batch.
ReturnNil ==
    /\ pc = "loop"
    /\ idx > Len(clLists)
    /\ pc' = "done"
    /\ retval' = NoErr
    /\ UNCHANGED <<clLists, clsSent, worker, idx, tests>>

Next ==
    \/ SkipEmpty
    \/ SkipPresubmitNone
    \/ ListTests
    \/ SkipNoTests
    \/ SkipUntrusted
    \/ RemoveOutdated
    \/ AddBuild
    \/ ReturnNil

Spec == Init /\ [][Next]_vars

\* A clsSender with a single batch of CLs of GroupPool.
InitGroup ==
    /\ clLists \in {<<curCLList>> :
                      curCLList \in UNION {SeqsOfLen(GroupPool, n) :
                                             n \in 0..MaxRecords}}
    /\ clsSent = 0
    /\ worker = <<>>
    /\ idx = 1
    /\ pc = "loop"
    /\ tests = <<>>
    /\ retval = NoErr

\* The runs of sendCLsToPresubmitTest over one batch of GroupPool.
SpecGroup == InitGroup /\ [][Next]_vars

\* The loop is sequential code whose workflow calls are blocking: whenever a
\* step of sendCLsToPresubmitTest is possible, one is eventually taken.
FairSpec == Spec /\ WF_vars(Next)

----------------------------------------------------------------------------
(* Vocabulary of the properties, stated on the input records themselves.   *)

\* The references of a batch, in input order.
RefsOf(batch) == [n \in 1..Len(batch) |-> batch[n].ref]

\* Whether each reference of the explored CLs parses, evaluated once.
RefParses ==
    [r \in {c.ref : c \in GroupPool} |-> ParseRefString(r).err = NoErr]

\* Every reference of the batch parses.
Parses(batch) == \A n \in 1..Len(batch) : RefParses[batch[n].ref]

\* Some member declares PresubmitTest: none.
DeclaresSkip(batch) ==
    \E n \in 1..Len(batch) : batch[n].presubmitTest = PresubmitTestTypeNone

\* Every owner's address ends in "@google.com".
OwnersTrusted(batch) ==
    \A n \in 1..Len(batch) : HasSuffix(batch[n].ownerEmail, "@google.com")

\* The positions in the call history of the calls of op made for batch k.
CallsOf(k, op) ==
    {j \in DOMAIN worker : worker[j].batch = k /\ worker[j].op = op}

\* All the calls made for batch k.
CallsFor(k) == {j \in DOMAIN worker : worker[j].batch = k}

\* The loop is through with batch k (it moved on, or returned while in it).
Handled(k) == idx > k \/ (idx = k /\ pc = "done")

\* listTestsToRun was called for batch k and returned a non-empty list.
GotTests(k) ==
    \E j \in CallsOf(k, "listTestsToRun") : Len(worker[j].ret) # 0

\* listTestsToRun was called for batch k and returned no test.
GotNoTests(k) ==
    \E j \in CallsOf(k, "listTestsToRun") : Len(worker[j].ret) = 0

----------------------------------------------------------------------------
(* Decision outcomes. *)

\* C1: a batch whose references all parse and in which some member declares
\* the skip directive is reported with postResults(..., verified = true),
\* whatever its owners are: once the loop is through with it exactly that
\* report has been made for it, and at no time has postResults been called
\* with verified = false or addPresubmitTestBuild been called for it.
Inv_C1_SkipByRequest ==
    \A k \in DOMAIN clLists :
        (DeclaresSkip(clLists[k]) /\ Parses(clLists[k])) =>
            /\ \A j \in CallsOf(k, "postResults") : worker[j].args[3] = TRUE
            /\ CallsOf(k, "addPresubmitTestBuild") = {}
            /\ Handled(k) =>
                  \E j \in CallsOf(k, "postResults") :
                      worker[j].args =
                          <<"Presubmit tests skipped.\n", RefsOf(clLists[k]), TRUE>>

\* A batch with an untrusted owner and a skip directive was reported verified.
Wit_C1_SkipByRequest ==
    \E k \in DOMAIN clLists :
        /\ Parses(clLists[k]) /\ DeclaresSkip(clLists[k])
        /\ ~OwnersTrusted(clLists[k])
        /\ Handled(k)
        /\ \E j \in CallsOf(k, "postResults") : worker[j].args[3] = TRUE

\* C2: a batch whose references all parse, with an untrusted owner, no skip
\* directive and a non-empty answer from listTestsToRun is reported with
\* postResults(batch's references, verified = false); it is never reported
\* verified and never submitted.
Inv_C2_SkipUntrusted ==
    \A k \in DOMAIN clLists :
        (/\ GotTests(k)
         /\ Parses(clLists[k])
         /\ ~DeclaresSkip(clLists[k])
         /\ ~OwnersTrusted(clLists[k])) =>
            /\ \A j \in CallsOf(k, "postResults") :
                  /\ worker[j].args[2] = RefsOf(clLists[k])
                  /\ worker[j].args[3] = FALSE
            /\ CallsOf(k, "addPresubmitTestBuild") = {}
            /\ Handled(k) => Cardinality(CallsOf(k, "postResults")) = 1

\* An untrusted batch with tests available was reported unverified.
Wit_C2_SkipUntrusted ==
    \E k \in DOMAIN clLists :
        /\ Parses(clLists[k]) /\ ~DeclaresSkip(clLists[k])
        /\ ~OwnersTrusted(clLists[k])
        /\ GotTests(k)
        /\ Handled(k)
        /\ \E j \in CallsOf(k, "postResults") : worker[j].args[3] = FALSE

\* C3: a non-empty batch whose references all parse, with no skip directive,
\* only trusted owners and a non-empty answer from listTestsToRun is
\* submitted: once the loop is through with it addPresubmitTestBuild has been
\* called for it, and every such call carries exactly the records of that
\* batch, in input order, and the test list just returned.
Inv_C3_Proceed ==
    \A k \in DOMAIN clLists :
        (/\ GotTests(k)
         /\ Len(clLists[k]) > 0
         /\ Parses(clLists[k])
         /\ ~DeclaresSkip(clLists[k])
         /\ OwnersTrusted(clLists[k])) =>
            /\ \A j \in CallsOf(k, "addPresubmitTestBuild") :
                  \E t \in CallsOf(k, "listTestsToRun") :
                      /\ t < j
                      /\ worker[j].args = <<clLists[k], worker[t].ret>>
            /\ CallsOf(k, "postResults") = {}
            /\ Handled(k) => CallsOf(k, "addPresubmitTestBuild") # {}

\* The second of two different batches was submitted.
Wit_C3_Proceed ==
    /\ Len(clLists) = 2
    /\ clLists[1] # clLists[2]
    /\ Len(clLists[1]) > 0
    /\ Len(clLists[2]) > 1
    /\ OwnersTrusted(clLists[2]) /\ ~DeclaresSkip(clLists[2])
    /\ Handled(2)
    /\ \E j \in CallsOf(2, "addPresubmitTestBuild") :
          worker[j].args[1] = clLists[2]

----------------------------------------------------------------------------
(* Failures of the workflow operations. *)

\* C4: a failed postResults call ends the run at once: it is the last call
\* ever made on the workflow, the run has returned, it returned that very
\* failure, and the loop never left the batch in which the call failed.
Inv_C4_PostFailureIsFatal ==
    \A j \in DOMAIN worker :
        (worker[j].op = "postResults" /\ worker[j].ret # NoErr) =>
            /\ j = Len(worker)
            /\ pc = "done"
            /\ retval = worker[j].ret
            /\ idx = worker[j].batch
            /\ ~ENABLED Next

\* postResults failed on the first of two batches, the second of which would
\* otherwise have been reported or submitted.
Wit_C4_PostFailureIsFatal ==
    /\ Len(clLists) = 2
    /\ Len(clLists[2]) > 0 /\ Parses(clLists[2])
    /\ \E j \in CallsOf(1, "postResults") : worker[j].ret = "e2"
    /\ retval = "e2"

\* The last call recorded in a call history.
LastCall(w) == w[Len(w)]

\* C5: a failed addPresubmitTestBuild is neither returned nor retried: the
\* step that makes the failing call leaves the dispatched count and the
\* return value alone and moves on to the next batch, exactly as the step of
\* a successful build does, and no batch ever has more than one
\* addPresubmitTestBuild call.
Prop_C5_BuildFailureContinues ==
    /\ [](\A j \in DOMAIN worker :
            (worker[j].op = "addPresubmitTestBuild" /\ worker[j].ret # NoErr) =>
                /\ CallsOf(worker[j].batch, "addPresubmitTestBuild") = {j}
                /\ idx > worker[j].batch
                /\ (pc = "done" /\ j = Len(worker)) => retval = NoErr)
    /\ [][(pc = "build") =>
             /\ Len(worker') = Len(worker) + 1
             /\ LastCall(worker').op = "addPresubmitTestBuild"
             /\ LastCall(worker').batch = idx
             /\ idx' = idx + 1
             /\ pc' = "loop"
             /\ retval' = retval
             /\ (LastCall(worker').ret # NoErr) => clsSent' = clsSent]_vars

\* The build of the first batch failed and the second batch was still
\* submitted, the run returning nil.
Wit_C5_BuildFailureContinues ==
    /\ \E j \in CallsOf(1, "addPresubmitTestBuild") : worker[j].ret = "e1"
    /\ \E j \in CallsOf(2, "addPresubmitTestBuild") : worker[j].ret = NoErr
    /\ pc = "done"
    /\ retval = NoErr
    /\ clsSent = Len(clLists[2])

\* C6: whatever removeOutdatedBuilds returns, the next call on the workflow
\* is addPresubmitTestBuild for the same batch, no batch has a second
\* removeOutdatedBuilds call, and the run neither stops nor returns a
\* failure because of it: a failure returned by the run is the failure of
\* the postResults call that ended it.
Inv_C6_RemoveOutdatedBestEffort ==
    /\ \A j \in DOMAIN worker :
          (worker[j].op = "removeOutdatedBuilds") =>
              /\ CallsOf(worker[j].batch, "removeOutdatedBuilds") = {j}
              /\ IF j = Len(worker)
                 THEN pc = "build" /\ idx = worker[j].batch /\ retval = NoErr
                 ELSE /\ worker[j + 1].op = "addPresubmitTestBuild"
                      /\ worker[j + 1].batch = worker[j].batch
    /\ (retval # NoErr) =>
          /\ Len(worker) > 0
          /\ LastCall(worker).op = "postResults"
          /\ LastCall(worker).ret = retval

\* removeOutdatedBuilds returned two failures and the build was submitted.
Wit_C6_RemoveOutdatedBestEffort ==
    \E j \in DOMAIN worker :
        /\ worker[j].op = "removeOutdatedBuilds"
        /\ worker[j].ret = <<"e1", "e2">>
        /\ j < Len(worker)
        /\ worker[j + 1].op = "addPresubmitTestBuild"
        /\ pc = "done"
        /\ retval = NoErr

----------------------------------------------------------------------------
(* Batches that yield no group. *)

\* C7: for a batch with an unparsable reference, at whatever position,
\* combineCLList returns no mapping entry, no reference and an empty label,
\* no call is ever made on the workflow for that batch, and the step taken
\* at that batch only moves the loop to the next batch.
Prop_C7_MalformedBatchSkipped ==
    /\ [](\A k \in DOMAIN clLists :
            ~Parses(clLists[k]) =>
                /\ LET group == combineCLList(clLists[k])
                   IN  /\ DOMAIN group.clMap = {}
                       /\ group.refs = <<>>
                       /\ group.clString = ""
                /\ CallsFor(k) = {})
    /\ [][(AtBatch /\ ~Parses(clLists[idx])) =>
             /\ idx' = idx + 1
             /\ pc' = "loop"
             /\ UNCHANGED <<clLists, clsSent, worker, retval>>]_vars

\* A batch whose second reference is unparsable was passed over and the next
\* batch was then processed.
Wit_C7_MalformedBatchSkipped ==
    /\ Len(clLists) = 2
    /\ Len(clLists[1]) = 2
    /\ ParseRefString(clLists[1][1].ref).err = NoErr
    /\ ParseRefString(clLists[1][2].ref).err # NoErr
    /\ CallsFor(1) = {}
    /\ CallsFor(2) # {}

\* C8: for an empty batch combineCLList yields an empty mapping, an empty
\* label, hasTrustedOwner = true and skipPresubmitTest = false, no call is
\* ever made on the workflow for that batch, and the step taken at that batch
\* only moves the loop to the next batch, returning nothing.
Prop_C8_EmptyBatchSkipped ==
    /\ [](\A k \in DOMAIN clLists :
            (Len(clLists[k]) = 0) =>
                /\ LET group == combineCLList(clLists[k])
                   IN  /\ DOMAIN group.clMap = {}
                       /\ group.clString = ""
                       /\ group.hasTrustedOwner = TRUE
                       /\ group.skipPresubmitTest = FALSE
                /\ CallsFor(k) = {})
    /\ [][(AtBatch /\ Len(clLists[idx]) = 0) =>
             /\ idx' = idx + 1
             /\ pc' = "loop"
             /\ UNCHANGED <<clLists, clsSent, worker, retval>>]_vars

\* An empty first batch was passed over and the next batch was processed.
Wit_C8_EmptyBatchSkipped ==
    /\ Len(clLists) = 2
    /\ Len(clLists[1]) = 0
    /\ CallsFor(1) = {}
    /\ CallsFor(2) # {}
    /\ pc = "done"
    /\ retval = NoErr

\* C9: a non-empty batch whose references all parse, with no skip directive,
\* for which listTestsToRun returned no test is reported with
\* postResults(batch's references, verified = true) whether or not its
\* owners are trusted, and neither removeOutdatedBuilds nor
\* addPresubmitTestBuild is ever called for it.
Inv_C9_SkipNoTests ==
    \A k \in DOMAIN clLists :
        (/\ GotNoTests(k)
         /\ Len(clLists[k]) > 0
         /\ Parses(clLists[k])
         /\ ~DeclaresSkip(clLists[k])) =>
            /\ \A j \in CallsOf(k, "postResults") :
                  worker[j].args = <<"No tests found.\n", RefsOf(clLists[k]), TRUE>>
            /\ CallsOf(k, "removeOutdatedBuilds") = {}
            /\ CallsOf(k, "addPresubmitTestBuild") = {}
            /\ Handled(k) => Cardinality(CallsOf(k, "postResults")) = 1

\* An untrusted batch for which no test was found was reported verified.
Wit_C9_SkipNoTests ==
    \E k \in DOMAIN clLists :
        /\ Len(clLists[k]) > 0 /\ Parses(clLists[k])
        /\ ~DeclaresSkip(clLists[k]) /\ ~OwnersTrusted(clLists[k])
        /\ GotNoTests(k)
        /\ Handled(k)
        /\ \E j \in CallsOf(k, "postResults") : worker[j].args[3] = TRUE

----------------------------------------------------------------------------
(* The dispatched count. *)

\* The number of records of the batches whose build was accepted, over the
\* first n calls of the history.
RECURSIVE SentBy(_)
SentBy(n) ==
    IF n = 0 THEN 0
    ELSE SentBy(n - 1) +
         (IF worker[n].op = "addPresubmitTestBuild" /\ worker[n].ret = NoErr
          THEN Len(clLists[worker[n].batch]) ELSE 0)

\* C10: clsSent always equals its initial value 0 plus the number of records
\* of the batches for which addPresubmitTestBuild has returned success; it
\* never decreases, and the only step that changes it is the one in which
\* addPresubmitTestBuild succeeds.
Prop_C10_DispatchedCount ==
    /\ [](clsSent = SentBy(Len(worker)))
    /\ [][/\ clsSent' >= clsSent
          /\ (clsSent' # clsSent) =>
                /\ pc = "build"
                /\ LastCall(worker').op = "addPresubmitTestBuild"
                /\ LastCall(worker').ret = NoErr
                /\ clsSent' = clsSent + Len(clLists[idx])]_vars

\* One build failed, one build of a two-record batch succeeded, and exactly
\* those two records are counted.
Wit_C10_DispatchedCount ==
    /\ \E j \in DOMAIN worker :
          worker[j].op = "addPresubmitTestBuild" /\ worker[j].ret # NoErr
    /\ \E j \in DOMAIN worker :
          /\ worker[j].op = "addPresubmitTestBuild" /\ worker[j].ret = NoErr
          /\ Len(clLists[worker[j].batch]) = 2
    /\ clsSent = 2
    /\ pc = "done"

----------------------------------------------------------------------------
(* Order of the workflow calls. *)

\* C11: batches are processed one at a time in input order: the calls in the
\* history are grouped by batch in increasing batch order, none is made for a
\* batch the loop has not reached, and within a batch removeOutdatedBuilds
\* directly follows listTestsToRun and addPresubmitTestBuild directly
\* follows removeOutdatedBuilds, the loop staying at the batch until its
\* build has been submitted.
Inv_C11_BatchOrder ==
    \A j \in DOMAIN worker :
        /\ worker[j].batch <= idx
        /\ (j > 1) => worker[j - 1].batch <= worker[j].batch
        /\ (worker[j].op = "listTestsToRun" /\ j > 1) =>
              worker[j - 1].batch < worker[j].batch
        /\ (worker[j].op = "removeOutdatedBuilds") =>
              /\ j > 1
              /\ worker[j - 1].op = "listTestsToRun"
              /\ worker[j - 1].batch = worker[j].batch
              /\ (j = Len(worker)) => (idx = worker[j].batch /\ pc = "build")
        /\ (worker[j].op = "addPresubmitTestBuild") =>
              /\ j > 1
              /\ worker[j - 1].op = "removeOutdatedBuilds"
              /\ worker[j - 1].batch = worker[j].batch

\* Two batches were submitted one after the other, each with its three calls.
Wit_C11_BatchOrder ==
    /\ Len(worker) = 6
    /\ worker[3].op = "addPresubmitTestBuild" /\ worker[3].batch = 1
    /\ worker[4].op = "listTestsToRun" /\ worker[4].batch = 2
    /\ worker[6].op = "addPresubmitTestBuild" /\ worker[6].batch = 2

----------------------------------------------------------------------------
(* Termination and the value returned. *)

\* Some postResults call has failed.
PostFailed ==
    \E j \in DOMAIN worker :
        worker[j].op = "postResults" /\ worker[j].ret # NoErr

\* C12: every run returns, and it returns a failure exactly when a
\* postResults call failed; a run that returns nil has gone through every
\* batch, whatever removeOutdatedBuilds and addPresubmitTestBuild returned
\* and however many batches were empty or malformed.
Prop_C12_Terminates ==
    /\ <>(pc = "done")
    /\ [](pc = "done" =>
            /\ (retval # NoErr) <=> PostFailed
            /\ (retval = NoErr) => idx = Len(clLists) + 1)
    /\ [](PostFailed => pc = "done")

\* A run with a malformed batch and a failed build returned nil.
Wit_C12_Terminates ==
    /\ pc = "done"
    /\ retval = NoErr
    /\ Len(clLists) = 2
    /\ \E k \in DOMAIN clLists : Len(clLists[k]) > 0 /\ ~Parses(clLists[k])
    /\ \E j \in DOMAIN worker :
          /\ worker[j].op = "addPresubmitTestBuild" /\ worker[j].ret # NoErr
          /\ \E n \in DOMAIN worker[j - 1].ret : worker[j - 1].ret[n] # NoErr

----------------------------------------------------------------------------
(* The group computed by combineCLList. *)

\* The batch with its records rearranged by the permutation p of its indices.
Rearranged(batch, p) == [n \in 1..Len(batch) |-> batch[p[n]]]

\* C13: for a batch whose references all parse, combineCLList sets
\* skipPresubmitTest exactly when some record declares the skip directive and
\* hasTrustedOwner exactly when every owner is trusted, and both flags are
\* the same for every rearrangement of the records.
Inv_C13_StickyFlags ==
    AtBatch =>
        LET batch == clLists[idx]
            group == combineCLList(batch)
        IN  Parses(batch) =>
                /\ group.skipPresubmitTest = DeclaresSkip(batch)
                /\ group.hasTrustedOwner = OwnersTrusted(batch)
                /\ \A p \in Permutations(1..Len(batch)) :
                      LET other == combineCLList(Rearranged(batch, p))
                      IN  /\ other.skipPresubmitTest = group.skipPresubmitTest
                          /\ other.hasTrustedOwner = group.hasTrustedOwner

\* A batch whose skip directive and whose untrusted owner both come before a
\* last record that is trusted and declares nothing was reported as skipped.
Wit_C13_StickyFlags ==
    /\ Handled(1)
    /\ LET batch == clLists[1]
       IN  /\ Len(batch) = 3
           /\ Parses(batch)
           /\ batch[1].presubmitTest = PresubmitTestTypeNone
           /\ ~HasSuffix(batch[2].ownerEmail, "@google.com")
           /\ batch[3].presubmitTest # PresubmitTestTypeNone
           /\ HasSuffix(batch[3].ownerEmail, "@google.com")
           /\ combineCLList(batch).skipPresubmitTest
           /\ ~combineCLList(batch).hasTrustedOwner
    /\ CallsOf(1, "postResults") # {}

\* The change and patchset numbers of the references of the explored CLs,
\* evaluated once.
RefNumbers == [r \in {c.ref : c \in GroupPool} |-> ParseRefString(r)]

\* The change numbers occurring in a batch.
ChangeNumbers(batch) ==
    {RefNumbers[batch[n].ref].cl : n \in 1..Len(batch)}

\* The position of the last record of the batch that carries change number c.
LastWith(batch, c) ==
    CHOOSE n \in 1..Len(batch) :
        /\ RefNumbers[batch[n].ref].cl = c
        /\ \A m \in (n + 1)..Len(batch) : RefNumbers[batch[m].ref].cl # c

\* One entry per change number of the batch, holding the patchset number of
\* the last record with that change number.
LastPatchsets(batch) ==
    [c \in ChangeNumbers(batch) |->
        RefNumbers[batch[LastWith(batch, c)].ref].ps]

\* C14: for a batch whose references all parse, the clMap returned by
\* combineCLList has exactly one entry per distinct change number of the
\* batch, whose value is the patchset number of the last record in input
\* order with that change number, and this is the mapping every
\* removeOutdatedBuilds call receives.
Inv_C14_LastPatchsetWins ==
    /\ AtBatch =>
          (Parses(clLists[idx]) =>
              combineCLList(clLists[idx]).clMap = LastPatchsets(clLists[idx]))
    /\ \A j \in DOMAIN worker :
          (worker[j].op = "removeOutdatedBuilds") =>
              worker[j].args[1] = LastPatchsets(clLists[worker[j].batch])

\* removeOutdatedBuilds received two entries for a batch of three records
\* whose first and last carry the same change number with different
\* patchsets, the entry holding the patchset of the last one.
Wit_C14_LastPatchsetWins ==
    \E j \in DOMAIN worker :
        /\ worker[j].op = "removeOutdatedBuilds"
        /\ LET batch == clLists[worker[j].batch]
               first == RefNumbers[batch[1].ref]
               last == RefNumbers[batch[Len(batch)].ref]
           IN  /\ Len(batch) = 3
               /\ first.cl = last.cl
               /\ first.ps > last.ps
               /\ Cardinality(DOMAIN worker[j].args[1]) = 2
               /\ worker[j].args[1][last.cl] = last.ps

\* The n-th of the pieces that the combined label of the batch falls into
\* when it is cut at its commas.
LabelPiece(batch, n) ==
    (IF n > 1 THEN " " ELSE "") \o
    ToString(RefNumbers[batch[n].ref].cl) \o "/" \o
    ToString(RefNumbers[batch[n].ref].ps)

\* C15: for a batch whose references all parse, the references and the
\* combined label returned by combineCLList each have one element per input
\* record, in input order: the n-th reference is the n-th record's, the n-th
\* label element is that record's "change/patchset", the elements are
\* joined by ", " (records 1/5 and 2/7 give "1/5, 2/7"), and every
\* postResults call receives exactly these references.
Inv_C15_RefsAndLabel ==
    /\ AtBatch =>
          LET batch == clLists[idx]
              group == combineCLList(batch)
              pieces == Split(group.clString, ",")
          IN  Parses(batch) =>
                  /\ Len(group.refs) = Len(batch)
                  /\ \A n \in 1..Len(batch) : group.refs[n] = batch[n].ref
                  /\ IF Len(batch) = 0
                     THEN group.clString = ""
                     ELSE /\ Len(pieces) = Len(batch)
                          /\ \A n \in 1..Len(batch) :
                                pieces[n] = LabelPiece(batch, n)
                  /\ (RefsOf(batch) =
                        <<"refs/changes/01/1/5", "refs/changes/02/2/7">>) =>
                          group.clString = "1/5, 2/7"
    /\ \A j \in DOMAIN worker :
          (worker[j].op = "postResults") =>
              worker[j].args[2] = RefsOf(clLists[worker[j].batch])

\* The batch of changes 1/5 and 2/7 was reported with its two references,
\* its label being "1/5, 2/7".
Wit_C15_RefsAndLabel ==
    /\ Handled(1)
    /\ RefsOf(clLists[1]) = <<"refs/changes/01/1/5", "refs/changes/02/2/7">>
    /\ combineCLList(clLists[1]).clString = "1/5, 2/7"
    /\ \E j \in CallsOf(1, "postResults") : Len(worker[j].args[2]) = 2

----------------------------------------------------------------------------
(* The query for the tests to run. *)

\* C16 as stated: once the loop is through with a group (a non-empty batch
\* whose references all parse), listTestsToRun has been called exactly once
\* for it.
Inv_C16_QueriedOncePerGroup ==
    \A k \in DOMAIN clLists :
        (Handled(k) /\ Len(clLists[k]) > 0 /\ Parses(clLists[k])) =>
            Cardinality(CallsOf(k, "listTestsToRun")) = 1

\* C16, amended: listTestsToRun is called at most once per batch: exactly
\* once for every non-empty batch whose references all parse and in which no
\* record declares the skip directive, and not at all for the other batches
\* (empty, malformed, or skipped at the author's request); the tests the
\* loop holds and passes to addPresubmitTestBuild for a batch are those
\* returned by that batch's own call.
Inv_C16_QueriedOncePerTestedGroup ==
    \A k \in DOMAIN clLists :
        LET queries == CallsOf(k, "listTestsToRun")
            tested == /\ Len(clLists[k]) > 0
                      /\ Parses(clLists[k])
                      /\ ~DeclaresSkip(clLists[k])
        IN  /\ Cardinality(queries) <= 1
            /\ ~tested => queries = {}
            /\ (tested /\ (Handled(k) \/ (idx = k /\ pc # "loop"))) =>
                  Cardinality(queries) = 1
            /\ (idx = k /\ pc \in {"tests", "build"}) =>
                  \E t \in queries : tests = worker[t].ret
            /\ \A j \in CallsOf(k, "addPresubmitTestBuild") :
                  \E t \in queries : worker[j].args[2] = worker[t].ret

\* A batch skipped at the author's request was handled without a query and
\* the next batch was submitted with the tests that its own query returned.
Wit_C16_QueriedOncePerTestedGroup ==
    /\ Len(clLists) = 2
    /\ pc = "done"
    /\ DeclaresSkip(clLists[1]) /\ Parses(clLists[1])
    /\ CallsOf(1, "postResults") # {}
    /\ CallsOf(1, "listTestsToRun") = {}
    /\ \E j \in CallsOf(2, "addPresubmitTestBuild") :
          /\ worker[j].args[2] = <<"t1", "t2">>
          /\ worker[j - 2].op = "listTestsToRun"
          /\ worker[j - 2].ret = <<"t1", "t2">>

----------------------------------------------------------------------------
(* The trust policy. *)

\* The address is some text followed by exactly "@google.com".
EndsWithDomain(emailAddress) ==
    LET rest == Len(emailAddress) - Len("@google.com")
    IN  /\ rest >= 0
        /\ emailAddress = SubSeq(emailAddress, 1, rest) \o "@google.com"

\* C17: isTrustedContributor holds of an owner address exactly when the
\* address ends with the literal "@google.com", compared as written:
\* "a@google.com" is trusted, "a@evil.com" and "a@GOOGLE.COM" are not, and
\* neither is an address with a blank after the domain.
Inv_C17_TrustPolicy ==
    \A k \in DOMAIN clLists :
        \A n \in 1..Len(clLists[k]) :
            LET email == clLists[k][n].ownerEmail
            IN  /\ isTrustedContributor(email) <=> EndsWithDomain(email)
                /\ (email = "a@google.com") => isTrustedContributor(email)
                /\ (email = "a@evil.com") => ~isTrustedContributor(email)
                /\ (email = "a@GOOGLE.COM") => ~isTrustedContributor(email)
                /\ (email = "a@google.com ") => ~isTrustedContributor(email)

\* A change owned by a@GOOGLE.COM alone, for which tests exist, was reported
\* unverified as coming from an external contributor.
Wit_C17_TrustPolicy ==
    /\ Handled(1)
    /\ Len(clLists[1]) = 1
    /\ clLists[1][1].ownerEmail = "a@GOOGLE.COM"
    /\ ~isTrustedContributor(clLists[1][1].ownerEmail)
    /\ \E j \in CallsOf(1, "postResults") : worker[j].args[3] = FALSE

----------------------------------------------------------------------------
(* Reporting and submitting exclude each other. *)

\* C18: for every batch postResults and addPresubmitTestBuild are each
\* called at most once and never both: a batch with an
\* addPresubmitTestBuild call, accepted or rejected, has no postResults
\* call, and a batch with a postResults call, which carries all the
\* references of the batch, has neither a removeOutdatedBuilds nor an
\* addPresubmitTestBuild call.
Inv_C18_ReportOrSubmit ==
    \A k \in DOMAIN clLists :
        LET reports == CallsOf(k, "postResults")
            builds == CallsOf(k, "addPresubmitTestBuild")
        IN  /\ Cardinality(reports) <= 1
            /\ Cardinality(builds) <= 1
            /\ (builds # {}) => reports = {}
            /\ (reports # {}) =>
                  /\ builds = {}
                  /\ CallsOf(k, "removeOutdatedBuilds") = {}
                  /\ \A j \in reports : worker[j].args[2] = RefsOf(clLists[k])

\* A batch whose build was rejected went unreported and the next batch, of
\* two records, was reported once.
Wit_C18_ReportOrSubmit ==
    /\ Len(clLists) = 2
    /\ pc = "done"
    /\ Len(clLists[2]) = 2
    /\ \E j \in CallsOf(1, "addPresubmitTestBuild") : worker[j].ret # NoErr
    /\ CallsOf(1, "postResults") = {}
    /\ Cardinality(CallsOf(2, "postResults")) = 1
    /\ CallsOf(2, "addPresubmitTestBuild") = {}

----------------------------------------------------------------------------
(* What reaches the CI system. *)

\* C19: addPresubmitTestBuild has never been invoked with a batch holding a
\* record whose owner is untrusted, a record that declares the skip
\* directive or a record whose reference does not parse, nor with an empty
\* list of tests.
Inv_C19_OnlyTrustedBuilds ==
    \A j \in DOMAIN worker :
        (worker[j].op = "addPresubmitTestBuild") =>
            /\ OwnersTrusted(worker[j].args[1])
            /\ ~DeclaresSkip(worker[j].args[1])
            /\ Parses(worker[j].args[1])
            /\ Len(worker[j].args[2]) > 0

\* A batch with an untrusted owner, for which tests exist, was not submitted
\* and the batch after it was.
Wit_C19_OnlyTrustedBuilds ==
    /\ Len(clLists) = 2
    /\ pc = "done"
    /\ Parses(clLists[1]) /\ ~OwnersTrusted(clLists[1])
    /\ GotTests(1)
    /\ CallsOf(1, "addPresubmitTestBuild") = {}
    /\ CallsOf(2, "addPresubmitTestBuild") # {}

\* C20: removeOutdatedBuilds is called only for a batch that is then
\* submitted: whenever the loop is between batches or has returned, every
\* batch has as many removeOutdatedBuilds as addPresubmitTestBuild calls;
\* each removeOutdatedBuilds call receives the mapping of its own batch and
\* is directly followed by the submission of that batch; and a batch that is
\* empty, malformed, skipped at the author's request, without tests or
\* untrusted never has a removeOutdatedBuilds call.
Inv_C20_CancelOnlyWhenSubmitting ==
    /\ (pc \in {"loop", "done"}) =>
          \A k \in DOMAIN clLists :
              Cardinality(CallsOf(k, "removeOutdatedBuilds")) =
                  Cardinality(CallsOf(k, "addPresubmitTestBuild"))
    /\ \A j \in DOMAIN worker :
          (worker[j].op = "removeOutdatedBuilds") =>
              /\ worker[j].args[1] = LastPatchsets(clLists[worker[j].batch])
              /\ (j < Len(worker)) =>
                    /\ worker[j + 1].op = "addPresubmitTestBuild"
                    /\ worker[j + 1].batch = worker[j].batch
                    /\ worker[j + 1].args[1] = clLists[worker[j].batch]
    /\ \A k \in DOMAIN clLists :
          (\/ Len(clLists[k]) = 0
           \/ ~Parses(clLists[k])
           \/ DeclaresSkip(clLists[k])
           \/ ~OwnersTrusted(clLists[k])
           \/ GotNoTests(k)) =>
              CallsOf(k, "removeOutdatedBuilds") = {}

\* A trusted batch without tests was reported with no cancellation and the
\* batch after it was cancelled for and submitted once.
Wit_C20_CancelOnlyWhenSubmitting ==
    /\ Len(clLists) = 2
    /\ pc = "done"
    /\ OwnersTrusted(clLists[1]) /\ Len(clLists[1]) > 0
    /\ GotNoTests(1)
    /\ CallsOf(1, "removeOutdatedBuilds") = {}
    /\ Cardinality(CallsOf(2, "removeOutdatedBuilds")) = 1
    /\ Cardinality(CallsOf(2, "addPresubmitTestBuild")) = 1
====
